---- MODULE Spec2Model ----
(***************************************************************************)
(* Deal state machine of the actions-server escrow backend.                *)
(*                                                                         *)
(* The store is a PostgreSQL database reached through Prisma.  No call in  *)
(* the repository sets an isolation level, so every statement runs at the  *)
(* database default, READ COMMITTED: each statement reads the rows that    *)
(* were committed when it started, the writes of an interactive            *)
(* transaction (prisma.$transaction) become visible together at commit,    *)
(* and an UPDATE ... WHERE id = ? is applied to the row as it is then.     *)
(* A handler is therefore a sequence of steps, one per statement, network  *)
(* call or commit, and the steps of concurrent requests interleave.        *)
(*                                                                         *)
(* A request body is drawn at the step that first consults it.             *)
(***************************************************************************)
EXTENDS Integers, Sequences, FiniteSets, Bags, TLC

\* ---------------------------------------------------------------- bounds
\* rows the onchain_events table may hold
MaxEvents == 3
\* rows the resolve_tickets table may hold
MaxTickets == 1
\* distinct instants new Date() may stamp into fundedAt
MaxTime == 2
\* instants the wall clock may advance through between initiate calls
MaxClock == 2
\* times a client sends the same initiate request
MaxRetries == 3

\* ------------------------------------------------------------- constants
\* handleConfirm: txSig.startsWith("1" x 32)
MockPrefixLen == 32

DealIds == {"d1"}
Procs == {"p1", "p2"}

Seller == "S"
Buyer == "B"
Arbiter == "A"
NoWallet == "null"
Wallets == {Seller, Buyer, Arbiter}

Statuses == {"INIT", "FUNDED", "DISPUTED", "RESOLVED", "RELEASED", "REFUNDED"}
ConfirmActions == {"INITIATE", "FUND", "RELEASE", "REFUND", "OPEN_DISPUTE", "RESOLVE"}
\* ticket.outcome as returned by the arbiter service is stored unvalidated
TicketOutcomes == {"RELEASE", "REFUND", "SPLIT"}
\* the deployment under study; no step of the server reads it on the confirm path
NodeEnvs == {"production"}

\* A transaction signature: its number of leading '1' characters and the rest.
MockSignature == [ones |-> 100, rest |-> ""]
RealSignature == [ones |-> 0, rest |-> "5Kq"]
NoSig == [ones |-> 0, rest |-> ""]
Signatures == {MockSignature, RealSignature}

\* amount.ts: digits after the point of a token amount
DECIMALS == 6
\* An amount of a request: whether its whole part is a run of decimal digits,
\* and how many digits follow the point.
Amounts == {[digits |-> TRUE, decimals |-> 2], [digits |-> TRUE, decimals |-> 7],
            [digits |-> FALSE, decimals |-> 0]}

\* ESCROW_PDA_SEEDS: "parties" selects the parties seeds, anything else deal_id
PdaSeedsSchemes == {"deal_id", "parties"}
\* solanaConfig.usdcMint, stored as depositTokenMint of every deal
UsdcMint == "USDC"

VARIABLES
    deals,      \* deals table: dealId -> row, for the rows that exist
    events,     \* onchain_events table, a bag of rows
    tickets,    \* resolve_tickets table, in issuedAt order
    calls,      \* the request each server task is serving and where it is
    response,   \* the HTTP response the last step sent, if it sent one
    now,        \* the last instant new Date() stamped
    nodeEnv,    \* process.env.NODE_ENV of the deployment
    pdaSeedsScheme, \* process.env.ESCROW_PDA_SEEDS as getEscrowPdaSeedsScheme reads it
    wallClock,  \* the instant new Date() shows to a price snapshot
    unit        \* the utility function being exercised: its arguments and results

vars == <<deals, events, tickets, calls, response, now, nodeEnv, pdaSeedsScheme, wallClock, unit>>

Idle == [op |-> "none", pc |-> "idle", txSig |-> NoSig, action |-> "none",
         seen |-> "none", next |-> "none", fundedAt |-> 0, accountExists |-> FALSE]

\* ------------------------------------------------------ escrow addresses
\* dealIdToBytes: the dashes are stripped and the 32 hex digits decoded
dealIdToBytes(dealId) == "0x" \o dealId

\* findProgramAddressSync(seeds, programId): an address is known by its seeds
getEscrowPda(dealId) == [seeds |-> <<"escrow", dealIdToBytes(dealId)>>]
getEscrowPdaWithParties(seller, buyer, mint) == [seeds |-> <<"escrow", seller, buyer, mint>>]
NoAddress == [seeds |-> << >>]

\* the escrow account and the dealId bytes of the instruction data of a built
\* transaction; NoBytes when the data carries no dealId
NoBytes == ""
NoTransaction == [escrowPda |-> NoAddress, dealIdBytes |-> NoBytes]
Transaction(escrowPda, dealIdBytes) == [escrowPda |-> escrowPda, dealIdBytes |-> dealIdBytes]

\* a response names the operation answered and, for confirm, the action of
\* the request body once the handler has consulted it; a build call answers
\* with the transaction it built
NoResponse == [op |-> "none", action |-> "none", ok |-> FALSE, error |-> "", tx |-> NoTransaction]
Reply(op) == [op |-> op, action |-> "none", ok |-> TRUE, error |-> "", tx |-> NoTransaction]
ReplyTx(op, tx) == [op |-> op, action |-> "none", ok |-> TRUE, error |-> "", tx |-> tx]
Fail(op, msg) == [op |-> op, action |-> "none", ok |-> FALSE, error |-> msg, tx |-> NoTransaction]
\* a handler that committed its transaction and then threw
ConfirmReplyThrown(action) ==
    [op |-> "confirm", action |-> action, ok |-> FALSE, error |-> "Internal error",
     tx |-> NoTransaction]
ConfirmReply(action) ==
    [op |-> "confirm", action |-> action, ok |-> TRUE, error |-> "", tx |-> NoTransaction]
ConfirmFail(action, msg) ==
    [op |-> "confirm", action |-> action, ok |-> FALSE, error |-> msg, tx |-> NoTransaction]

Exists(d) == d \in DOMAIN deals

\* no utility function is being exercised
NoUnit == [fn |-> "none"]

\* ------------------------------------------------------- handleConfirm
IsMockSignature(txSig) == txSig.ones >= MockPrefixLen

\* expectedWallet of handleConfirm
ExpectedWallet(action, deal, actorWallet) ==
    CASE action \in {"FUND", "RELEASE"} -> deal.buyerWallet
      [] action = "REFUND" -> deal.sellerWallet
      [] action = "OPEN_DISPUTE" -> actorWallet
      [] action = "RESOLVE" -> deal.arbiterPubkey
      [] OTHER -> deal.sellerWallet

\* the two throws of the actor validation; "" when the actor passes
ActorError(action, deal, actorWallet) ==
    IF action = "OPEN_DISPUTE" /\ actorWallet # deal.buyerWallet /\ actorWallet # deal.sellerWallet
    THEN "Actor wallet must be buyer or seller"
    ELSE IF ExpectedWallet(action, deal, actorWallet) # actorWallet
         THEN "Actor wallet mismatch"
         ELSE ""

\* a status test that also lets RELEASE and REFUND through from DISPUTED
TransitionAllowedFromDisputed(action, status) ==
    CASE action = "FUND" -> status = "INIT"
      [] action = "RELEASE" -> status \in {"FUNDED", "RESOLVED", "DISPUTED"}
      [] action = "REFUND" -> status \in {"FUNDED", "RESOLVED", "DISPUTED"}
      [] action = "OPEN_DISPUTE" -> status = "FUNDED"
      [] action = "RESOLVE" -> status \in {"DISPUTED", "FUNDED"}
      [] OTHER -> TRUE

\* the status test of each case of the switch in handleConfirm
TransitionAllowed(action, status) ==
    CASE action = "FUND" -> status = "INIT"
      [] action = "RELEASE" -> status \in {"FUNDED", "RESOLVED"}
      [] action = "REFUND" -> status \in {"FUNDED", "RESOLVED"}
      [] action = "OPEN_DISPUTE" -> status = "FUNDED"
      [] action = "RESOLVE" -> status \in {"DISPUTED", "FUNDED"}
      [] OTHER -> TRUE

\* the message of the throw of each case
TransitionError(action) ==
    CASE action = "OPEN_DISPUTE" -> "Invalid transition: can only dispute FUNDED deals"
      [] action = "RESOLVE" -> "Invalid transition: can only resolve DISPUTED or FUNDED deals"
      [] OTHER -> "Invalid transition"

\* a switch whose RESOLVE case reads the verdict the wrong way round
NextStatusVerdictSwapped(action, status, finalAction) ==
    CASE action = "FUND" -> "FUNDED"
      [] action = "RELEASE" -> "RELEASED"
      [] action = "REFUND" -> "REFUNDED"
      [] action = "OPEN_DISPUTE" -> "DISPUTED"
      [] action = "RESOLVE" -> (CASE finalAction = "RELEASE" -> "REFUNDED"
                                  [] finalAction = "REFUND" -> "RELEASED"
                                  [] OTHER -> "none")
      [] OTHER -> status

\* nextStatus of the switch in handleConfirm; finalAction is consulted for
\* RESOLVE only, "none" stands for the throw on an unsupported verdict.
NextStatus(action, status, finalAction) ==
    CASE action = "FUND" -> "FUNDED"
      [] action = "RELEASE" -> "RELEASED"
      [] action = "REFUND" -> "REFUNDED"
      [] action = "OPEN_DISPUTE" -> "DISPUTED"
      [] action = "RESOLVE" -> (CASE finalAction = "RELEASE" -> "RELEASED"
                                  [] finalAction = "REFUND" -> "REFUNDED"
                                  [] OTHER -> "none")
      [] OTHER -> status

\* fundedAt: nextStatus === FUNDED ? new Date() : deal.fundedAt
FundedAtAfter(nextStatus, readFundedAt, date) ==
    IF nextStatus = "FUNDED" THEN date ELSE readFundedAt

\* resolveTicket.findFirst({where: {dealId}, orderBy: {issuedAt: "desc"}})
TicketsOf(d) == SelectSeq(tickets, LAMBDA t : t.dealId = d)
HasTicket(d) == Len(TicketsOf(d)) > 0
LatestTicket(d) == TicketsOf(d)[Len(TicketsOf(d))]

\* what getSignatureStatuses may answer for a signature
SignatureStatuses == {"null", "err", "ok"}

\* the signature check before the transaction: a mock signature skips the
\* RPC call, any other one is looked up and must be found without error
handleConfirm_verify(p) ==
    /\ calls[p].pc = "idle"
    /\ \E txSig \in Signatures :
         IF IsMockSignature(txSig)
         THEN /\ calls' = [calls EXCEPT ![p] = [Idle EXCEPT !.op = "confirm", !.pc = "cf_read", !.txSig = txSig]]
              /\ response' = NoResponse
         ELSE \E signatureStatus \in SignatureStatuses :
              IF signatureStatus = "null"
              THEN /\ response' = Fail("confirm", "Transaction not found")
                   /\ UNCHANGED calls
              ELSE IF signatureStatus = "err"
                   THEN /\ response' = Fail("confirm", "Transaction failed")
                        /\ UNCHANGED calls
                   ELSE /\ calls' = [calls EXCEPT ![p] = [Idle EXCEPT !.op = "confirm", !.pc = "cf_read", !.txSig = txSig]]
                        /\ response' = NoResponse
    /\ UNCHANGED <<deals, events, tickets, now, nodeEnv, pdaSeedsScheme, wallClock, unit>>

\* tx.deal.findUnique and the actor and status checks made on that row
handleConfirm_read(p) ==
    /\ calls[p].pc = "cf_read"
    /\ \E d \in DealIds, action \in ConfirmActions, actorWallet \in Wallets :
         IF ~Exists(d)
         THEN /\ response' = Fail("confirm", "Deal not found")
              /\ calls' = [calls EXCEPT ![p] = Idle]
         ELSE LET deal == deals[d] IN
              IF ActorError(action, deal, actorWallet) # ""
              THEN /\ response' = ConfirmFail(action, ActorError(action, deal, actorWallet))
                   /\ calls' = [calls EXCEPT ![p] = Idle]
              ELSE IF ~TransitionAllowed(action, deal.status)
                   THEN /\ response' = ConfirmFail(action, TransitionError(action))
                        /\ calls' = [calls EXCEPT ![p] = Idle]
                   ELSE /\ calls' = [calls EXCEPT ![p] =
                               [@ EXCEPT !.pc = IF action = "RESOLVE" THEN "cf_ticket" ELSE "cf_commit",
                                         !.action = action,
                                         !.seen = deal.status,
                                         !.next = NextStatus(action, deal.status, "none"),
                                         !.fundedAt = deal.fundedAt]]
                        /\ response' = NoResponse
    /\ UNCHANGED <<deals, events, tickets, now, nodeEnv, pdaSeedsScheme, wallClock, unit>>

\* tx.resolveTicket.findFirst of the RESOLVE case
handleConfirm_ticket(p) ==
    /\ calls[p].pc = "cf_ticket"
    /\ \E d \in DealIds :
         IF ~HasTicket(d)
         THEN /\ response' = ConfirmFail("RESOLVE", "No resolution ticket found")
              /\ calls' = [calls EXCEPT ![p] = Idle]
         ELSE LET nextStatus == NextStatus("RESOLVE", calls[p].seen, LatestTicket(d).finalAction) IN
              IF nextStatus = "none"
              THEN /\ response' = ConfirmFail("RESOLVE", "Unsupported verdict")
                   /\ calls' = [calls EXCEPT ![p] = Idle]
              ELSE /\ calls' = [calls EXCEPT ![p] = [@ EXCEPT !.pc = "cf_commit", !.next = nextStatus]]
                   /\ response' = NoResponse
    /\ UNCHANGED <<deals, events, tickets, now, nodeEnv, pdaSeedsScheme, wallClock, unit>>

\* tx.onchainEvent.create, tx.deal.update and the commit of the transaction;
\* when the row has been deleted meanwhile the insert violates the foreign
\* key of onchain_events and the transaction rolls back
handleConfirm_commit(p) ==
    /\ calls[p].pc = "cf_commit"
    /\ BagCardinality(events) < MaxEvents
    /\ calls[p].next = "FUNDED" => now < MaxTime
    /\ \E d \in DealIds :
         IF ~Exists(d)
         THEN /\ response' = ConfirmFail(calls[p].action, "Foreign key constraint failed")
              /\ UNCHANGED <<deals, events, now>>
         ELSE /\ now' = IF calls[p].next = "FUNDED" THEN now + 1 ELSE now
              /\ events' = events (+) SetToBag({[dealId |-> d, txSig |-> calls[p].txSig, instruction |-> calls[p].action]})
              /\ deals' = [deals EXCEPT ![d] =
                              [@ EXCEPT !.status = calls[p].next,
                                        !.fundedAt = FundedAtAfter(calls[p].next, calls[p].fundedAt, now')]]
              /\ response' = ConfirmReply(calls[p].action)
    /\ calls' = [calls EXCEPT ![p] = Idle]
    /\ UNCHANGED <<tickets, nodeEnv, pdaSeedsScheme, wallClock, unit>>

\* ------------------------------------------------------ handleInitiate
\* how the getLatestBlockhash of the shortcut path ends: a result, an error
\* after the retries, or the 3000 ms timer of the outer race
CheckpointOutcomes == {"ok", "error", "timeout"}
\* let blockhash = "", lastValidBlockHeight = 0
NoCheckpoint == [latestBlockhash |-> "", lastValidBlockHeight |-> 0]
\* the shortcut path with the fetch outside try/catch: a failure fails the call
fetchCheckpointUncaught(outcome) ==
    IF outcome = "ok"
    THEN [latestBlockhash |-> "blockhash", lastValidBlockHeight |-> 1]
    ELSE [latestBlockhash |-> "thrown", lastValidBlockHeight |-> 0]
\* try { ... getLatestBlockhash ... } catch { warn }: a failure keeps the
\* empty checkpoint
fetchCheckpoint(outcome) ==
    IF outcome = "ok"
    THEN [latestBlockhash |-> "blockhash", lastValidBlockHeight |-> 1]
    ELSE NoCheckpoint
\* the answer of the shortcut path: the id of the deal found, no transaction
InitiateShortcut(dealId, checkpoint) ==
    IF checkpoint.latestBlockhash = "thrown"
    THEN Fail("initiate", "Failed to fetch blockhash")
    ELSE [op |-> "initiate", action |-> "none", ok |-> TRUE, error |-> "",
          tx |-> NoTransaction, dealId |-> dealId, checkpoint |-> checkpoint]

\* getAccountInfo(escrowPda) and, when the account exists, deal.findFirst on
\* (onchainAddress, sellerWallet, buyerWallet): a match is reused or refused
handleInitiate_lookupCall(p, d, accountExists, outcome) ==
    /\ calls[p].pc = "idle"
    /\ IF accountExists /\ Exists(d)
       THEN /\ response' = IF deals[d].status # "INIT"
                           THEN Fail("initiate", "Escrow account exists")
                           ELSE InitiateShortcut(d, fetchCheckpoint(outcome))
            /\ UNCHANGED calls
       ELSE /\ calls' = [calls EXCEPT ![p] = [Idle EXCEPT !.op = "initiate", !.pc = "in_check",
                                                          !.accountExists = accountExists]]
            /\ response' = NoResponse
    /\ UNCHANGED <<deals, events, tickets, now, nodeEnv, pdaSeedsScheme, wallClock, unit>>

\* the checkpoint is fetched on the shortcut path only
handleInitiate_lookup(p) ==
    \E d \in DealIds, accountExists \in BOOLEAN :
        \E outcome \in IF accountExists /\ Exists(d) /\ deals[d].status = "INIT"
                       THEN CheckpointOutcomes ELSE {"ok"} :
            handleInitiate_lookupCall(p, d, accountExists, outcome)

\* existingDeal = fetchDealSummary(dealId): only an INIT deal is re-issued
handleInitiate_check(p) ==
    /\ calls[p].pc = "in_check"
    /\ \E d \in DealIds :
         IF Exists(d) /\ deals[d].status # "INIT"
         THEN /\ response' = Fail("initiate", "Deal already initialized")
              /\ calls' = [calls EXCEPT ![p] = Idle]
         ELSE /\ calls' = [calls EXCEPT ![p] =
                     [@ EXCEPT !.pc = "in_write",
                               !.seen = IF Exists(d) THEN deals[d].status ELSE "none"]]
              /\ response' = NoResponse
    /\ UNCHANGED <<deals, events, tickets, now, nodeEnv, pdaSeedsScheme, wallClock, unit>>

\* new Prisma.Decimal(toUsdDecimalString(amount)): the whole part must be a number
DecimalThrows(amount) == ~amount.digits

\* parseAmountToUnits: /^\d+(\.\d{1,6})?$/
parseAmountToUnitsThrows(amount) == ~(amount.digits /\ amount.decimals <= DECIMALS)

\* getEscrowPdaSeedsScheme
getEscrowPdaSeedsScheme == IF pdaSeedsScheme = "parties" THEN "parties" ELSE "deal_id"

\* handleInitiate: the escrow address of the request
InitiateEscrowPda(dealId, sellerWallet, buyerWallet) ==
    IF getEscrowPdaSeedsScheme = "parties"
    THEN getEscrowPdaWithParties(sellerWallet, buyerWallet, UsdcMint)
    ELSE getEscrowPda(dealId)

\* handleInitiate: the instruction data ends with the dealId bytes under the
\* deal_id scheme only
InitiateTransaction(dealId, escrowPda) ==
    Transaction(escrowPda, IF getEscrowPdaSeedsScheme = "parties" THEN NoBytes
                           ELSE dealIdToBytes(dealId))

\* what handleInitiate answers once the row is written: the stored address is
\* compared with the derived one, the amount is parsed, and under the deal_id
\* scheme the address is derived again from the dealId bytes
InitiateAnswer(dealId, escrowPda, storedAddress, amount) ==
    IF storedAddress # escrowPda
    THEN Fail("initiate", "Database onchainAddress mismatch")
    ELSE IF parseAmountToUnitsThrows(amount)
    THEN Fail("initiate", "Amount must be a numeric string with up to 6 decimals")
    ELSE IF getEscrowPdaSeedsScheme = "deal_id" /\ escrowPda # getEscrowPda(dealId)
    THEN Fail("initiate", "PDA derivation mismatch")
    ELSE ReplyTx("initiate", InitiateTransaction(dealId, escrowPda))

\* deal.create when no row was found, deal.update of the terms otherwise;
\* both store a price snapshot captured at the instant the clock shows;
\* neither statement names the status of an existing row; the answer is
\* built from the row read back
handleInitiate_writeCall(p, d, amount, sellerWallet, buyerWallet, arbiterWallet) ==
    /\ calls[p].pc = "in_write"
    /\ LET escrowPda == InitiateEscrowPda(d, sellerWallet, buyerWallet) IN
         IF DecimalThrows(amount)
         THEN /\ response' = Fail("initiate", "[DecimalError] Invalid argument")
              /\ UNCHANGED deals
         ELSE IF calls[p].seen = "none"
         THEN IF Exists(d)
              THEN /\ response' = Fail("initiate", "Unique constraint failed")
                   /\ UNCHANGED deals
              ELSE /\ deals' = deals @@ (d :> [status |-> "INIT", sellerWallet |-> sellerWallet,
                                               buyerWallet |-> buyerWallet,
                                               arbiterPubkey |-> IF arbiterWallet = NoWallet
                                                                 THEN sellerWallet
                                                                 ELSE arbiterWallet,
                                               fundedAt |-> 0, depositTokenMint |-> UsdcMint,
                                               onchainAddress |-> escrowPda,
                                               usdPriceSnapshot |-> [capturedAt |-> wallClock]])
                   /\ response' = InitiateAnswer(d, escrowPda, deals'[d].onchainAddress, amount)
         ELSE IF ~Exists(d)
              THEN /\ response' = Fail("initiate", "Record to update not found")
                   /\ UNCHANGED deals
              ELSE /\ deals' = [deals EXCEPT ![d] =
                                  [@ EXCEPT !.sellerWallet = sellerWallet,
                                            !.buyerWallet = buyerWallet,
                                            !.arbiterPubkey = IF arbiterWallet = NoWallet
                                                              THEN @ ELSE arbiterWallet,
                                            !.depositTokenMint = UsdcMint,
                                            !.onchainAddress = escrowPda,
                                            !.usdPriceSnapshot = [capturedAt |-> wallClock]]]
                   /\ response' = InitiateAnswer(d, escrowPda, deals'[d].onchainAddress, amount)
    /\ calls' = [calls EXCEPT ![p] = Idle]
    /\ UNCHANGED <<events, tickets, now, nodeEnv, pdaSeedsScheme, wallClock, unit>>

\* the requests of the deal's own parties
handleInitiate_write(p) ==
    \E d \in DealIds, amount \in Amounts :
        handleInitiate_writeCall(p, d, amount, Seller, Buyer, Arbiter)

\* the requests of any caller, with any wallets in the body
handleInitiate_writeAny(p) ==
    \E d \in DealIds, amount \in Amounts, sellerWallet \in Wallets, buyerWallet \in Wallets,
       arbiterWallet \in Wallets \cup {NoWallet} :
        handleInitiate_writeCall(p, d, amount, sellerWallet, buyerWallet, arbiterWallet)

\* ---------------------------------------------- fund, release, refund
\* the fund checks without the comparison of the caller with the buyer
FundErrorAnyCaller(d, buyerWallet) ==
    IF ~Exists(d) THEN "Deal not found"
    ELSE IF deals[d].status # "INIT" THEN "Deal status " \o deals[d].status \o " cannot be funded"
    ELSE ""

\* the checks every fund implementation makes on the fetched summary
FundError(d, buyerWallet) ==
    IF ~Exists(d) THEN "Deal not found"
    ELSE IF deals[d].status # "INIT" THEN "Deal status " \o deals[d].status \o " cannot be funded"
    ELSE IF deals[d].buyerWallet # buyerWallet THEN "Caller wallet does not match buyer"
    ELSE ""

\* the escrow address fund, release, open-dispute and resolve derive for a
\* stored deal: the parties seeds under the parties scheme when the row has
\* both wallets and a mint, the dealId seed otherwise
DealEscrowPda(d) ==
    IF /\ getEscrowPdaSeedsScheme = "parties"
       /\ deals[d].sellerWallet # NoWallet /\ deals[d].buyerWallet # NoWallet
    THEN getEscrowPdaWithParties(deals[d].sellerWallet, deals[d].buyerWallet,
                                 deals[d].depositTokenMint)
    ELSE getEscrowPda(d)

\* handleFund: the derived address is verified against the dealId bytes
\* under the deal_id scheme only; a missing escrow account is an error;
\* nothing is written
handleFundCall(p, d, buyerWallet) ==
    /\ calls[p].pc = "idle"
    /\ IF FundError(d, buyerWallet) # ""
       THEN response' = Fail("fund", FundError(d, buyerWallet))
       ELSE \E amount \in Amounts :
            IF parseAmountToUnitsThrows(amount)
            THEN response' = Fail("fund", "Amount must be a numeric string with up to 6 decimals")
            ELSE IF /\ getEscrowPdaSeedsScheme = "deal_id"
                    /\ DealEscrowPda(d) # getEscrowPda(d)
            THEN response' = Fail("fund", "PDA derivation mismatch")
            ELSE \E accountExists \in BOOLEAN :
                    response' = IF ~accountExists
                                THEN Fail("fund", "Escrow account does not exist on-chain")
                                ELSE ReplyTx("fund", Transaction(DealEscrowPda(d), dealIdToBytes(d)))
    /\ UNCHANGED <<deals, events, tickets, calls, now, nodeEnv, pdaSeedsScheme, wallClock, unit>>

handleFund(p) == \E d \in DealIds, buyerWallet \in Wallets : handleFundCall(p, d, buyerWallet)

\* EscrowService.fund of the single-file service: the same checks, but a
\* missing escrow account (or a failed lookup) selects the skip branch
fund_read(p) ==
    /\ calls[p].pc = "idle"
    /\ \E d \in DealIds, buyerWallet \in Wallets :
         IF FundError(d, buyerWallet) # ""
         THEN /\ response' = Fail("fund", FundError(d, buyerWallet))
              /\ UNCHANGED calls
         ELSE \E accountExists \in BOOLEAN :
              IF accountExists
              THEN /\ response' = ReplyTx("fund", Transaction(getEscrowPda(d), dealIdToBytes(d)))
                   /\ UNCHANGED calls
              ELSE /\ calls' = [calls EXCEPT ![p] = [Idle EXCEPT !.op = "fund", !.pc = "fd_skip", !.seen = deals[d].status]]
                   /\ response' = NoResponse
    /\ UNCHANGED <<deals, events, tickets, now, nodeEnv, pdaSeedsScheme, wallClock, unit>>

\* the skip branch: one transaction that marks the deal FUNDED and records
\* an event under the all-ones signature
fund_skip(p) ==
    /\ calls[p].pc = "fd_skip"
    /\ BagCardinality(events) < MaxEvents
    /\ now < MaxTime
    /\ \E d \in DealIds :
         /\ Exists(d)
         /\ now' = now + 1
         /\ deals' = [deals EXCEPT ![d] = [@ EXCEPT !.status = "FUNDED", !.fundedAt = now']]
         /\ events' = events (+) SetToBag({[dealId |-> d, txSig |-> MockSignature, instruction |-> "FUND"]})
         /\ response' = Reply("fund")
    /\ calls' = [calls EXCEPT ![p] = Idle]
    /\ UNCHANGED <<tickets, nodeEnv, pdaSeedsScheme, wallClock, unit>>

\* handleRelease: FUNDED or RESOLVED, requested by the buyer
handleReleaseCall(p, d, buyerWallet) ==
    /\ calls[p].pc = "idle"
    /\ response' = IF ~Exists(d) THEN Fail("release", "Deal not found")
                   ELSE IF deals[d].status \notin {"FUNDED", "RESOLVED"}
                        THEN Fail("release", "Deal status " \o deals[d].status \o " cannot be released")
                   ELSE IF deals[d].buyerWallet # buyerWallet
                        THEN Fail("release", "Caller wallet does not match buyer")
                   ELSE ReplyTx("release", Transaction(DealEscrowPda(d), dealIdToBytes(d)))
    /\ UNCHANGED <<deals, events, tickets, calls, now, nodeEnv, pdaSeedsScheme, wallClock, unit>>

handleRelease(p) == \E d \in DealIds, buyerWallet \in Wallets : handleReleaseCall(p, d, buyerWallet)

\* handleRefund: FUNDED or RESOLVED, requested by the seller; the escrow
\* address is getEscrowPda({dealId}) whatever the scheme
handleRefundCall(p, d, sellerWallet) ==
    /\ calls[p].pc = "idle"
    /\ response' = IF ~Exists(d) THEN Fail("refund", "Deal not found")
                   ELSE IF deals[d].status \notin {"FUNDED", "RESOLVED"}
                        THEN Fail("refund", "Deal status " \o deals[d].status \o " cannot be refunded")
                   ELSE IF deals[d].sellerWallet # sellerWallet
                        THEN Fail("refund", "Caller wallet does not match seller")
                   ELSE ReplyTx("refund", Transaction(getEscrowPda(d), dealIdToBytes(d)))
    /\ UNCHANGED <<deals, events, tickets, calls, now, nodeEnv, pdaSeedsScheme, wallClock, unit>>

handleRefund(p) == \E d \in DealIds, sellerWallet \in Wallets : handleRefundCall(p, d, sellerWallet)

\* EscrowService.openDispute: FUNDED, requested by either party
openDisputeCall(p, d, callerWallet) ==
    /\ calls[p].pc = "idle"
    /\ response' = IF ~Exists(d) THEN Fail("open-dispute", "Deal not found")
                   ELSE IF deals[d].status # "FUNDED"
                        THEN Fail("open-dispute", "Deal must be FUNDED to open dispute, current status: "
                                                      \o deals[d].status)
                   ELSE IF deals[d].buyerWallet # callerWallet /\ deals[d].sellerWallet # callerWallet
                        THEN Fail("open-dispute", "Only buyer or seller can open a dispute")
                   ELSE ReplyTx("open-dispute", Transaction(DealEscrowPda(d), NoBytes))
    /\ UNCHANGED <<deals, events, tickets, calls, now, nodeEnv, pdaSeedsScheme, wallClock, unit>>

openDispute(p) == \E d \in DealIds, callerWallet \in Wallets : openDisputeCall(p, d, callerWallet)

\* EscrowService.resolve: RESOLVED or DISPUTED; the verdict is the request's
\* or, when omitted, the latest ticket's; the server signs and submits
resolve(p) ==
    /\ calls[p].pc = "idle"
    /\ \E d \in DealIds, verdict \in {"none", "RELEASE", "REFUND"} :
         response' = IF ~Exists(d) THEN Fail("resolve", "Deal not found")
                     ELSE IF deals[d].status \notin {"RESOLVED", "DISPUTED"}
                          THEN Fail("resolve", "Deal must have a resolution")
                     ELSE IF verdict = "none" /\ ~HasTicket(d)
                          THEN Fail("resolve", "No resolution ticket found; call arbitrate first or pass verdict")
                     ELSE ReplyTx("resolve", Transaction(DealEscrowPda(d), NoBytes))
    /\ UNCHANGED <<deals, events, tickets, calls, now, nodeEnv, pdaSeedsScheme, wallClock, unit>>

\* ------------------------------------------- POST /api/deals/:id/arbitrate
\* deal.findUnique and the DISPUTED test
arbitrate_read(p) ==
    /\ calls[p].pc = "idle"
    /\ \E d \in DealIds :
         IF ~Exists(d)
         THEN /\ response' = Fail("arbitrate", "Deal not found")
              /\ UNCHANGED calls
         ELSE IF deals[d].status # "DISPUTED"
              THEN /\ response' = Fail("arbitrate", "Cannot trigger arbitration")
                   /\ UNCHANGED calls
              ELSE /\ calls' = [calls EXCEPT ![p] = [Idle EXCEPT !.op = "arbitrate", !.pc = "ar_ticket", !.seen = deals[d].status]]
                   /\ response' = NoResponse
    /\ UNCHANGED <<deals, events, tickets, now, nodeEnv, pdaSeedsScheme, wallClock, unit>>

\* resolveTicket.findFirst (an existing ticket is returned as is), then the
\* evidence list and the call to the arbiter service
arbitrate_ticket(p) ==
    /\ calls[p].pc = "ar_ticket"
    /\ \E d \in DealIds, outcome \in {"no_evidence", "service_error", "ok"} :
         IF HasTicket(d)
         THEN /\ response' = Reply("arbitrate")
              /\ calls' = [calls EXCEPT ![p] = Idle]
         ELSE IF outcome = "no_evidence"
              THEN /\ response' = Fail("arbitrate", "No evidence found for arbitration")
                   /\ calls' = [calls EXCEPT ![p] = Idle]
              ELSE IF outcome = "service_error"
                   THEN /\ response' = Fail("arbitrate", "Failed to call arbiter service")
                        /\ calls' = [calls EXCEPT ![p] = Idle]
                   ELSE /\ calls' = [calls EXCEPT ![p] = [@ EXCEPT !.pc = "ar_create"]]
                        /\ response' = NoResponse
    /\ UNCHANGED <<deals, events, tickets, now, nodeEnv, pdaSeedsScheme, wallClock, unit>>

\* resolveTicket.create with the outcome the arbiter service returned
arbitrate_create(p) ==
    /\ calls[p].pc = "ar_create"
    /\ Len(tickets) < MaxTickets
    /\ \E d \in DealIds, outcome \in TicketOutcomes :
         /\ Exists(d)
         /\ tickets' = Append(tickets, [dealId |-> d, finalAction |-> outcome])
    /\ calls' = [calls EXCEPT ![p] = [@ EXCEPT !.pc = "ar_update"]]
    /\ response' = NoResponse
    /\ UNCHANGED <<deals, events, now, nodeEnv, pdaSeedsScheme, wallClock, unit>>

\* deal.update({where: {id}, data: {status: 'RESOLVED'}})
arbitrate_update(p) ==
    /\ calls[p].pc = "ar_update"
    /\ \E d \in DealIds :
         /\ Exists(d)
         /\ deals' = [deals EXCEPT ![d] = [@ EXCEPT !.status = "RESOLVED"]]
         /\ response' = Reply("arbitrate")
    /\ calls' = [calls EXCEPT ![p] = Idle]
    /\ UNCHANGED <<events, tickets, now, nodeEnv, pdaSeedsScheme, wallClock, unit>>

\* ------------------------------------------------- DELETE /api/deals/:id
\* what the database does with the resolve tickets of a deleted deal: the
\* foreign key of resolve_tickets is declared outside the migrations at hand
TicketForeignKeys == {"cascade", "restrict"}

\* onchain_events.deal_id REFERENCES deals(id) ON DELETE CASCADE
EventsAfterDelete(d) ==
    [e \in {x \in BagToSet(events) : x.dealId # d} |-> CopiesIn(e, events)]

\* deal.findUnique and the INIT test
delete_read(p) ==
    /\ calls[p].pc = "idle"
    /\ \E d \in DealIds :
         IF ~Exists(d)
         THEN /\ response' = Fail("delete", "Deal not found")
              /\ UNCHANGED calls
         ELSE IF deals[d].status # "INIT"
              THEN /\ response' = Fail("delete", "Only deals in INIT status can be deleted")
                   /\ UNCHANGED calls
              ELSE /\ calls' = [calls EXCEPT ![p] = [Idle EXCEPT !.op = "delete", !.pc = "dl_delete", !.seen = deals[d].status]]
                   /\ response' = NoResponse
    /\ UNCHANGED <<deals, events, tickets, now, nodeEnv, pdaSeedsScheme, wallClock, unit>>

\* deal.delete({where: {id}}): the row goes whatever its status is by now,
\* and its onchain_events rows go with it
delete_delete(p) ==
    /\ calls[p].pc = "dl_delete"
    /\ \E d \in DealIds :
         IF ~Exists(d)
         THEN /\ response' = Fail("delete", "Failed to delete deal")
              /\ UNCHANGED <<deals, events, tickets>>
         ELSE \E onDelete \in (IF HasTicket(d) THEN TicketForeignKeys ELSE {"cascade"}) :
              IF onDelete = "restrict"
              THEN /\ response' = Fail("delete", "Failed to delete deal")
                   /\ UNCHANGED <<deals, events, tickets>>
              ELSE /\ deals' = [x \in DOMAIN deals \ {d} |-> deals[x]]
                   /\ events' = EventsAfterDelete(d)
                   /\ tickets' = SelectSeq(tickets, LAMBDA t : t.dealId # d)
                   /\ response' = Reply("delete")
    /\ calls' = [calls EXCEPT ![p] = Idle]
    /\ UNCHANGED <<now, nodeEnv, pdaSeedsScheme, wallClock, unit>>

\* ------------------------------------------------------- specification
Init ==
    /\ deals = << >>
    /\ events = EmptyBag
    /\ tickets = << >>
    /\ calls = [p \in Procs |-> Idle]
    /\ response = NoResponse
    /\ now = 0
    /\ nodeEnv \in NodeEnvs
    /\ pdaSeedsScheme = "deal_id"
    /\ wallClock = 0
    /\ unit = NoUnit

Next ==
    \/ \E p \in Procs : handleConfirm_verify(p)
    \/ \E p \in Procs : handleConfirm_read(p)
    \/ \E p \in Procs : handleConfirm_ticket(p)
    \/ \E p \in Procs : handleConfirm_commit(p)
    \/ \E p \in Procs : handleInitiate_lookup(p)
    \/ \E p \in Procs : handleInitiate_check(p)
    \/ \E p \in Procs : handleInitiate_write(p)
    \/ \E p \in Procs : handleFund(p)
    \/ \E p \in Procs : fund_read(p)
    \/ \E p \in Procs : fund_skip(p)
    \/ \E p \in Procs : handleRelease(p)
    \/ \E p \in Procs : handleRefund(p)
    \/ \E p \in Procs : openDispute(p)
    \/ \E p \in Procs : resolve(p)
    \/ \E p \in Procs : arbitrate_read(p)
    \/ \E p \in Procs : arbitrate_ticket(p)
    \/ \E p \in Procs : arbitrate_create(p)
    \/ \E p \in Procs : arbitrate_update(p)

Spec == Init /\ [][Next]_vars

\* The deal lifecycle with deletion: the requests that create a deal, confirm
\* a transaction on it and delete it.
NextDelete ==
    \/ \E p \in Procs : handleConfirm_verify(p)
    \/ \E p \in Procs : handleConfirm_read(p)
    \/ \E p \in Procs : handleConfirm_ticket(p)
    \/ \E p \in Procs : handleConfirm_commit(p)
    \/ \E p \in Procs : handleInitiate_lookup(p)
    \/ \E p \in Procs : handleInitiate_check(p)
    \/ \E p \in Procs : handleInitiate_write(p)
    \/ \E p \in Procs : delete_read(p)
    \/ \E p \in Procs : delete_delete(p)

SpecDelete == Init /\ [][NextDelete]_vars

\* The build calls under either seed scheme of a deployment, with the
\* confirmations that move the deal to the statuses they require.
InitAddress ==
    /\ deals = << >>
    /\ events = EmptyBag
    /\ tickets = << >>
    /\ calls = [p \in Procs |-> Idle]
    /\ response = NoResponse
    /\ now = 0
    /\ nodeEnv \in NodeEnvs
    /\ pdaSeedsScheme \in PdaSeedsSchemes
    /\ wallClock = 0
    /\ unit = NoUnit

NextAddress ==
    \/ \E p \in Procs : handleConfirm_verify(p)
    \/ \E p \in Procs : handleConfirm_read(p)
    \/ \E p \in Procs : handleConfirm_ticket(p)
    \/ \E p \in Procs : handleConfirm_commit(p)
    \/ \E p \in Procs : handleInitiate_lookup(p)
    \/ \E p \in Procs : handleInitiate_check(p)
    \/ \E p \in Procs : handleInitiate_write(p)
    \/ \E p \in Procs : handleFund(p)
    \/ \E p \in Procs : handleRelease(p)
    \/ \E p \in Procs : handleRefund(p)
    \/ \E p \in Procs : openDispute(p)
    \/ \E p \in Procs : resolve(p)

SpecAddress == InitAddress /\ [][NextAddress]_vars

\* Time passes between the steps of initiate calls.  Spec, SpecDelete and
\* SpecAddress keep the wall clock still; here it advances.
Tick ==
    /\ wallClock < MaxClock
    /\ wallClock' = wallClock + 1
    /\ response' = NoResponse
    /\ UNCHANGED <<deals, events, tickets, calls, now, nodeEnv, pdaSeedsScheme, unit>>

NextInitiate ==
    \/ \E p \in Procs : handleInitiate_lookup(p)
    \/ \E p \in Procs : handleInitiate_check(p)
    \/ \E p \in Procs : handleInitiate_write(p)
    \/ Tick

SpecInitiate == Init /\ [][NextInitiate]_vars

\* initiate alone, its body naming any wallets
NextParties ==
    \/ \E p \in Procs : handleInitiate_lookup(p)
    \/ \E p \in Procs : handleInitiate_check(p)
    \/ \E p \in Procs : handleInitiate_writeAny(p)

SpecParties == Init /\ [][NextParties]_vars

\* ------------------------------------------------------------ utilities
\* ensureDeadline: a positive timestamp is kept, anything else becomes the
\* clock plus three days
FallbackSeconds == 3 * 24 * 60 * 60
ensureDeadline(unixTs, clock) == IF unixTs > 0 THEN unixTs ELSE clock + FallbackSeconds

\* toUsdDecimalString: the whole part and the first two digits after the point
toUsdDecimalString(amount) == [digits |-> amount.digits, decimals |-> 2]

\* deriveDeterministicDealId: the first 16 bytes of the SHA-256 digest of the
\* canonical JSON of the seed; a digest is known by what was hashed
deriveDeterministicDealId(seed) == [sha256 |-> seed]

\* ensureDealId as handleInitiate calls it: the seed is always given
NoClientDealId == "undefined"
ensureDealId(proposed, seed) ==
    IF proposed # NoClientDealId THEN [uuid |-> proposed] ELSE deriveDeterministicDealId(seed)

\* deliverBy of a request body; 0 stands for an omitted field
DeliverBys == {0, 1900000000}
\* the bodies of initiate requests whose retries are followed
InitiateBodies ==
    [sellerWallet : {Seller}, buyerWallet : {Buyer}, amount : {a \in Amounts : a.digits},
     deliverBy : DeliverBys, clientDealId : {NoClientDealId, "d1"}]

\* handleInitiate, up to the dealId: the id the request resolves to when it
\* is served at the instant the clock shows
InitiateDealId(body, clock) ==
    ensureDealId(body.clientDealId,
                 [sellerWallet |-> body.sellerWallet, buyerWallet |-> body.buyerWallet,
                  amount |-> toUsdDecimalString(body.amount),
                  deliverAt |-> ensureDeadline(body.deliverBy, clock)])

\* a client sends an initiate request
initiate_send ==
    /\ unit = NoUnit
    /\ \E body \in InitiateBodies :
         unit' = [fn |-> "ensureDealId", body |-> body,
                  dealIds |-> <<InitiateDealId(body, wallClock)>>]
    /\ UNCHANGED <<deals, events, tickets, calls, response, now, nodeEnv, pdaSeedsScheme,
                   wallClock>>

\* the client retries with the identical body
initiate_retry ==
    /\ unit.fn = "ensureDealId"
    /\ Len(unit.dealIds) < MaxRetries
    /\ unit' = [unit EXCEPT !.dealIds = Append(@, InitiateDealId(unit.body, wallClock))]
    /\ UNCHANGED <<deals, events, tickets, calls, response, now, nodeEnv, pdaSeedsScheme,
                   wallClock>>

\* time passes between a request and its retry
UnitTick ==
    /\ wallClock < MaxClock
    /\ wallClock' = wallClock + 1
    /\ UNCHANGED <<deals, events, tickets, calls, response, now, nodeEnv, pdaSeedsScheme,
                   unit>>

\* ------------------------------------------------------------- encoders
\* the low `size` bytes of temp, least significant first: the loop of
\* writeUIntLE and writeIntLE (temp & 0xff, temp >>= 8 on a bigint)
RECURSIVE LowBytes(_, _)
LowBytes(temp, size) ==
    IF size = 0 THEN << >> ELSE <<temp % 256>> \o LowBytes(temp \div 256, size - 1)

\* 1n << BigInt(bits)
RECURSIVE ShiftLeftOne(_)
ShiftLeftOne(bits) == IF bits = 0 THEN 1 ELSE 2 * ShiftLeftOne(bits - 1)

writeUIntLE(value, size) == LowBytes(value, size)

writeIntLE(value, size) ==
    LowBytes(IF value < 0 THEN ShiftLeftOne(size * 8) + value ELSE value, size)

u16ToBuffer(value) == writeUIntLE(value, 2)
\* u64ToBuffer with the width of u128ToBuffer
u128ToBuffer(value) == writeUIntLE(value, 16)
u64ToBuffer(value) == writeUIntLE(value, 8)
i64ToBuffer(value) == writeIntLE(value, 8)

\* sizes and values the encoders are exercised with; neither encoder has a
\* throw statement, so the error of a call is always empty
EncoderSizes == {1, 2}
EncoderValues == (0 - 300) .. 300 \cup {0 - 32769, 0 - 32768, 32767, 32768, 65535, 65536}

encode_unsigned ==
    /\ unit = NoUnit
    /\ \E value \in EncoderValues, size \in EncoderSizes :
         unit' = [fn |-> "writeUIntLE", value |-> value, size |-> size,
                  error |-> "", buffer |-> writeUIntLE(value, size)]
    /\ UNCHANGED <<deals, events, tickets, calls, response, now, nodeEnv, pdaSeedsScheme,
                   wallClock>>

encode_signed ==
    /\ unit = NoUnit
    /\ \E value \in EncoderValues, size \in EncoderSizes :
         unit' = [fn |-> "writeIntLE", value |-> value, size |-> size,
                  error |-> "", buffer |-> writeIntLE(value, size)]
    /\ UNCHANGED <<deals, events, tickets, calls, response, now, nodeEnv, pdaSeedsScheme,
                   wallClock>>

\* -------------------------------------------------------------- payloads
ANCHOR_DISCRIMINATOR_SIZE == 8
\* createHash("sha256").update("global:" + name).digest(): 32 bytes, each
\* known by the name hashed and its position
Sha256Len == 32
getInstructionDiscriminator(name) ==
    SubSeq([i \in 1 .. Sha256Len |-> <<"sha256", name, i>>], 1, ANCHOR_DISCRIMINATOR_SIZE)

\* dealIdToBytes of a dealId the builders accept: 32 hex digits, 16 bytes
DealIdBytesLen == 16
DealIdBuffer(dealId) == [i \in 1 .. DealIdBytesLen |-> <<dealIdToBytes(dealId), i>>]

\* the instruction data each builder concatenates
InitiateData(amountUnits, feeBps, disputeAt, dealId) ==
    IF getEscrowPdaSeedsScheme = "parties"
    THEN getInstructionDiscriminator("initiate") \o u64ToBuffer(amountUnits)
            \o u16ToBuffer(feeBps) \o i64ToBuffer(disputeAt)
    ELSE getInstructionDiscriminator("initiate") \o u64ToBuffer(amountUnits)
            \o u16ToBuffer(feeBps) \o i64ToBuffer(disputeAt) \o DealIdBuffer(dealId)
FundData(dealId) == getInstructionDiscriminator("fund") \o DealIdBuffer(dealId)
ReleaseData(dealId) == getInstructionDiscriminator("release") \o DealIdBuffer(dealId)
RefundData(dealId) == getInstructionDiscriminator("refund") \o DealIdBuffer(dealId)
OpenDisputeData == getInstructionDiscriminator("open_dispute")
ResolveData(verdictU8) == getInstructionDiscriminator("resolve") \o <<verdictU8>>

\* inputs the builders accept: token units, feeBps of the schema's range,
\* a deadline in seconds, the verdict byte
AmountUnits == {0, 1, 12500000, 2147483647}
FeeBpsValues == {0, 250, 10000}
DisputeAts == {1, 1900000000}
VerdictBytes == {1, 2}

build_data ==
    /\ unit = NoUnit
    /\ \/ \E amountUnits \in AmountUnits, feeBps \in FeeBpsValues, disputeAt \in DisputeAts,
             d \in DealIds :
             unit' = [fn |-> "data", op |-> "initiate",
                      data |-> InitiateData(amountUnits, feeBps, disputeAt, d)]
       \/ \E d \in DealIds :
             \/ unit' = [fn |-> "data", op |-> "fund", data |-> FundData(d)]
             \/ unit' = [fn |-> "data", op |-> "release", data |-> ReleaseData(d)]
             \/ unit' = [fn |-> "data", op |-> "refund", data |-> RefundData(d)]
       \/ unit' = [fn |-> "data", op |-> "open-dispute", data |-> OpenDisputeData]
       \/ \E verdictU8 \in VerdictBytes :
             unit' = [fn |-> "data", op |-> "resolve", data |-> ResolveData(verdictU8)]
    /\ UNCHANGED <<deals, events, tickets, calls, response, now, nodeEnv, pdaSeedsScheme,
                   wallClock>>

\* ---------------------------------------------------------------- amounts
\* an amount string after trim(): the characters before the first ".",
\* whether a "." is there, and the characters after it, digits only
AmountDigits == {0, 7}
MaxWholeLen == 3
MaxFractionLen == 7
DigitSeqs(lo, hi) == UNION {[1 .. n -> AmountDigits] : n \in lo .. hi}
AmountStrings ==
    {s \in [whole : DigitSeqs(0, MaxWholeLen), dot : BOOLEAN,
            fraction : DigitSeqs(0, MaxFractionLen)] : s.dot \/ s.fraction = << >>}

\* /^\d+(\.\d{1,6})?$/
MatchesAmountFormat(s) ==
    /\ Len(s.whole) >= 1
    /\ IF s.dot THEN Len(s.fraction) \in 1 .. DECIMALS ELSE s.fraction = << >>

RECURSIVE Pow10(_)
Pow10(n) == IF n = 0 THEN 1 ELSE 10 * Pow10(n - 1)
\* BigInt(10 ** DECIMALS)
SCALE == Pow10(DECIMALS)

\* BigInt(text) of a string of decimal digits
RECURSIVE BigIntOf(_)
BigIntOf(digits) ==
    IF digits = << >> THEN 0
    ELSE 10 * BigIntOf(SubSeq(digits, 1, Len(digits) - 1)) + digits[Len(digits)]

\* n.toString() of a bigint n >= 0
RECURSIVE BigIntToString(_)
BigIntToString(n) ==
    IF n < 10 THEN <<n>> ELSE BigIntToString(n \div 10) \o <<n % 10>>

\* text.padStart(len, "0") without the padding
padStartNone(digits, len) == digits
\* text.padStart(len, "0")
padStart(digits, len) ==
    IF Len(digits) >= len THEN digits
    ELSE [i \in 1 .. (len - Len(digits)) |-> 0] \o digits

\* (fraction + "000000").slice(0, DECIMALS)
fractionPadded(fraction) ==
    SubSeq(fraction \o [i \in 1 .. DECIMALS |-> 0], 1, DECIMALS)

\* parseAmountToUnits of a string that passed the format test
parseAmountToUnits(s) == BigIntOf(s.whole) * SCALE + BigIntOf(fractionPadded(s.fraction))

\* `${whole}.${frac.toString().padStart(DECIMALS, "0")}`
formatUnitsToDecimal(units) ==
    [whole |-> BigIntToString(units \div SCALE), dot |-> TRUE,
     fraction |-> padStart(BigIntToString(units % SCALE), DECIMALS)]

\* parse an amount string, then format the units back
amount_roundtrip ==
    /\ unit = NoUnit
    /\ \E s \in AmountStrings :
         unit' = IF MatchesAmountFormat(s)
                 THEN [fn |-> "formatUnitsToDecimal", input |-> s, error |-> "",
                       units |-> parseAmountToUnits(s),
                       output |-> formatUnitsToDecimal(parseAmountToUnits(s))]
                 ELSE [fn |-> "formatUnitsToDecimal", input |-> s,
                       error |-> "Amount must be a numeric string with up to 6 decimals",
                       units |-> 0, output |-> s]
    /\ UNCHANGED <<deals, events, tickets, calls, response, now, nodeEnv, pdaSeedsScheme,
                   wallClock>>

\* ------------------------------------------------- order of I/O in a call
\* what a handler awaits, in program order: a JSON-RPC round trip to the
\* Solana node, a database statement, the start and the end of a
\* prisma.$transaction callback, a throw outside a transaction
Rpc(name) == [kind |-> "rpc", name |-> name]
Db(name) == [kind |-> "db", name |-> name]
Begin == [kind |-> "begin", name |-> "prisma.$transaction"]
Commit == [kind |-> "commit", name |-> "prisma.$transaction"]
Rollback == [kind |-> "rollback", name |-> "prisma.$transaction"]
Throw == [kind |-> "throw", name |-> "Error"]

\* handleConfirm with the status check moved into the transaction callback
handleConfirmIoHeld(mock, sigFound, dealOk, isResolve, ticket) ==
    <<Begin>>
    \o (IF mock THEN << >> ELSE <<Rpc("getSignatureStatuses")>>)
    \o (IF ~mock /\ ~sigFound THEN <<Rollback>>
        ELSE <<Db("deal.findUnique")>>
             \o (IF ~dealOk THEN <<Rollback>>
                 ELSE (IF isResolve THEN <<Db("resolveTicket.findFirst")>> ELSE << >>)
                      \o (IF isResolve /\ ~ticket THEN <<Rollback>>
                          ELSE <<Db("onchainEvent.create"), Db("deal.update"), Commit>>)))
\* handleConfirm: the signature status is fetched unless the signature is a
\* mock one, then the transaction reads the deal (and the ticket for
\* RESOLVE), writes the event and the deal; a throw in the callback rolls back
handleConfirmIo(mock, sigFound, dealOk, isResolve, ticket) ==
    (IF mock THEN << >> ELSE <<Rpc("getSignatureStatuses")>>)
    \o (IF ~mock /\ ~sigFound THEN <<Throw>>
        ELSE <<Begin, Db("deal.findUnique")>>
             \o (IF ~dealOk THEN <<Rollback>>
                 ELSE (IF isResolve THEN <<Db("resolveTicket.findFirst")>> ELSE << >>)
                      \o (IF isResolve /\ ~ticket THEN <<Rollback>>
                          ELSE <<Db("onchainEvent.create"), Db("deal.update"), Commit>>)))

\* EscrowService.fund of the service file: the deal, the account lookup,
\* then either the skip branch (transaction, then the blockhash) or the
\* build of the transaction (blockhash inside buildVersionedTransaction)
legacyFundIo(dealOk, skip) ==
    <<Db("fetchDealSummary")>>
    \o (IF ~dealOk THEN <<Throw>>
        ELSE <<Rpc("getAccountInfo")>>
             \o (IF skip
                 THEN <<Begin, Db("deal.update"), Db("onchainEvent.create"), Commit,
                        Rpc("getLatestBlockhash")>>
                 ELSE <<Rpc("getLatestBlockhash")>>))

\* the awaited calls of one request, by operation
IoScripts ==
    {[op |-> "confirm", script |-> handleConfirmIo(mock, sigFound, dealOk, isResolve, ticket)] :
        mock \in BOOLEAN, sigFound \in BOOLEAN, dealOk \in BOOLEAN, isResolve \in BOOLEAN,
        ticket \in BOOLEAN}
    \cup {[op |-> "fund", script |-> legacyFundIo(dealOk, skip)] :
            dealOk \in BOOLEAN, skip \in BOOLEAN}

\* a request starts: nothing awaited yet
io_start ==
    /\ unit = NoUnit
    /\ \E s \in IoScripts :
         unit' = [fn |-> "io", op |-> s.op, script |-> s.script, pos |-> 0,
                  txOpen |-> FALSE, held |-> FALSE]
    /\ UNCHANGED <<deals, events, tickets, calls, response, now, nodeEnv, pdaSeedsScheme,
                   wallClock>>

\* the request awaits its next call; held records a round trip made while
\* the transaction is open
io_step ==
    /\ unit.fn = "io"
    /\ unit.pos < Len(unit.script)
    /\ LET call == unit.script[unit.pos + 1] IN
         unit' = [unit EXCEPT !.pos = @ + 1,
                              !.txOpen = CASE call.kind = "begin" -> TRUE
                                           [] call.kind \in {"commit", "rollback"} -> FALSE
                                           [] OTHER -> @,
                              !.held = @ \/ (call.kind = "rpc" /\ unit.txOpen)]
    /\ UNCHANGED <<deals, events, tickets, calls, response, now, nodeEnv, pdaSeedsScheme,
                   wallClock>>

\* --------------------------------------------------- price and funding
\* the amounts the price of a deal and a fund request are drawn from
MaxPriceWholeLen == 1
MaxPriceFractionLen == 3
PriceStrings ==
    {s \in AmountStrings : Len(s.whole) <= MaxPriceWholeLen
                              /\ Len(s.fraction) <= MaxPriceFractionLen}

\* toUsdDecimalString of an amount string: split at ".", the first two
\* characters of fraction + "00"
toUsdDecimalDigits(s) ==
    [whole |-> s.whole, dot |-> TRUE,
     fraction |-> SubSeq(s.fraction \o <<0, 0>>, 1, 2)]

\* handleInitiate stores priceUsd: new Prisma.Decimal(toUsdDecimalString(amount))
price_store ==
    /\ unit = NoUnit
    /\ \E amount \in {s \in PriceStrings : MatchesAmountFormat(s)} :
         unit' = [fn |-> "handleFund", pc |-> "stored",
                  priceUsd |-> toUsdDecimalDigits(amount), amount |-> amount,
                  error |-> "", transfer |-> 0]
    /\ UNCHANGED <<deals, events, tickets, calls, response, now, nodeEnv, pdaSeedsScheme,
                   wallClock>>

\* handleFund on that deal: amountUnits = parseAmountToUnits(input.amount)
\* is the amount of the transfer instruction; the stored price is not read
fund_transfer ==
    /\ unit.fn = "handleFund"
    /\ unit.pc = "stored"
    /\ \E amount \in PriceStrings :
         unit' = IF MatchesAmountFormat(amount)
                 THEN [unit EXCEPT !.pc = "built", !.amount = amount,
                                   !.transfer = parseAmountToUnits(amount)]
                 ELSE [unit EXCEPT !.pc = "built", !.amount = amount,
                                   !.error = "Amount must be a numeric string with up to 6 decimals"]
    /\ UNCHANGED <<deals, events, tickets, calls, response, now, nodeEnv, pdaSeedsScheme,
                   wallClock>>

NextUtils ==
    \/ price_store
    \/ fund_transfer
    \/ initiate_send
    \/ initiate_retry
    \/ UnitTick
    \/ encode_unsigned
    \/ encode_signed
    \/ build_data
    \/ amount_roundtrip
    \/ io_start
    \/ io_step

SpecUtils == Init /\ [][NextUtils]_vars

\* --------------------------------------------------------- withRpcRetry
\* what one call of rpcCall does: it resolves, rejects with a network error,
\* rejects with an error of the node about the request (its message plain,
\* or quoting an address or slot that has the digits 429 in it), or stays
\* pending
RpcOutcomes == {"success", "transient", "nontransient", "nontransient_digits", "hang"}
\* the rejections that are not network errors
NonTransientOutcomes == {"nontransient", "nontransient_digits"}
MaxAttempts == 3

\* String(err?.message ?? err) of the error an attempt ends with, as the
\* pieces of text it is made of
errorMessage(outcome) ==
    CASE outcome = "transient" -> <<"fetch failed">>
      [] outcome = "nontransient" -> <<"Invalid params">>
      [] outcome = "nontransient_digits" ->
            <<"failed to get info about account 7xK", "429", "Qm: Invalid params">>
      [] outcome = "hang" -> <<"rpc_timeout">>

\* /fetch failed|ETIMEDOUT|ECONNRESET|ECONNREFUSED|ECONNABORTED|429|503|rpc_timeout/i
\* .test(msg): one of the alternatives occurs somewhere in the message
isTransient(msg) ==
    \E i \in DOMAIN msg :
        msg[i] \in {"fetch failed", "ETIMEDOUT", "ECONNRESET", "ECONNREFUSED",
                    "ECONNABORTED", "429", "503", "rpc_timeout"}

\* Promise.race without the timer promise: a pending call never settles
raceNoTimer(outcome) ==
    CASE outcome = "success" -> "resolved"
      [] outcome = "hang" -> "pending"
      [] OTHER -> "rejected"
\* Promise.race([rpcCall(connection), timer]): the call settles first, or
\* the timer rejects with rpc_timeout after timeoutMs
race(outcome) ==
    CASE outcome = "success" -> "resolved"
      [] OTHER -> "rejected"

NoError == [msg |-> <<"undefined">>, attempt |-> 0]

InitRetry ==
    /\ deals = << >>
    /\ events = EmptyBag
    /\ tickets = << >>
    /\ calls = [p \in Procs |-> Idle]
    /\ response = NoResponse
    /\ now = 0
    /\ nodeEnv \in NodeEnvs
    /\ pdaSeedsScheme = "deal_id"
    /\ wallClock = 0
    /\ \E maxAttempts \in 1 .. MaxAttempts, outcomes \in [1 .. MaxAttempts -> RpcOutcomes] :
         unit = [fn |-> "withRpcRetry", maxAttempts |-> maxAttempts, outcomes |-> outcomes,
                 pc |-> "loop", attempt |-> 1, made |-> 0, failures |-> 0,
                 lastErr |-> NoError, result |-> 0, error |-> NoError]

\* the head of the for loop: the next attempt picks an endpoint and starts
\* the race, or the loop is over and lastErr is thrown
rr_attempt ==
    /\ unit.fn = "withRpcRetry"
    /\ unit.pc = "loop"
    /\ unit' = IF unit.attempt <= unit.maxAttempts
               THEN [unit EXCEPT !.pc = "race", !.made = @ + 1]
               ELSE [unit EXCEPT !.pc = "thrown", !.error = unit.lastErr]
    /\ UNCHANGED <<deals, events, tickets, calls, response, now, nodeEnv, pdaSeedsScheme,
                   wallClock>>

\* the race settles: return on success; in catch, remember the error, rethrow
\* a non-transient one, leave the loop after the last attempt, else sleep
rr_settle ==
    /\ unit.fn = "withRpcRetry"
    /\ unit.pc = "race"
    /\ LET outcome == unit.outcomes[unit.attempt]
           settled == race(outcome)
           err == [msg |-> errorMessage(outcome), attempt |-> unit.attempt]
       IN /\ settled # "pending"
          /\ unit' = IF settled = "resolved"
                     THEN [unit EXCEPT !.pc = "returned", !.result = unit.attempt,
                                       !.failures = 0]
                     ELSE IF ~isTransient(err.msg)
                     THEN [unit EXCEPT !.pc = "thrown", !.lastErr = err, !.error = err,
                                       !.failures = @ + 1]
                     ELSE IF unit.attempt = unit.maxAttempts
                     THEN [unit EXCEPT !.pc = "thrown", !.lastErr = err, !.error = err,
                                       !.failures = @ + 1]
                     ELSE [unit EXCEPT !.pc = "sleep", !.lastErr = err,
                                       !.failures = @ + 1]
    /\ UNCHANGED <<deals, events, tickets, calls, response, now, nodeEnv, pdaSeedsScheme,
                   wallClock>>

\* sleep(delay) is over: attempt++
rr_wake ==
    /\ unit.fn = "withRpcRetry"
    /\ unit.pc = "sleep"
    /\ unit' = [unit EXCEPT !.pc = "loop", !.attempt = @ + 1]
    /\ UNCHANGED <<deals, events, tickets, calls, response, now, nodeEnv, pdaSeedsScheme,
                   wallClock>>

NextRetry ==
    \/ rr_attempt
    \/ rr_settle
    \/ rr_wake

\* the event loop runs every settled promise and every expired timer
SpecRetry == InitRetry /\ [][NextRetry]_vars /\ WF_vars(NextRetry)

\* ---------------------------------------------------- RpcEndpointManager
\* the configured urls by position, the breaker's parameters and the range
\* of Date.now() explored; a lastFailedAt of 0 is the undefined one (both
\* are falsy in the test of getHealthyEndpoints), so the clock starts at 1
NumEndpoints == 2
circuitThreshold == 2
circuitCooldownMs == 2
MaxEndpointClock == 6
MaxInflight == 2
MaxFailures == 3
Endpoints == 1 .. NumEndpoints
NoEndpoint == 0

\* markFailure(url) at time clock
markFailure(endpoints, i, clock) ==
    [endpoints EXCEPT ![i] = [failures |-> @.failures + 1, lastFailedAt |-> clock,
                              healthy |-> IF @.failures + 1 >= circuitThreshold
                                          THEN FALSE ELSE @.healthy]]

\* markSuccess(url)
markSuccess(endpoints, i) ==
    [endpoints EXCEPT ![i] = [failures |-> 0, healthy |-> TRUE, lastFailedAt |-> 0]]

\* the loop of getHealthyEndpoints: cooled-down endpoints are enabled again
reenable(endpoints, clock) ==
    [i \in Endpoints |->
        IF /\ ~endpoints[i].healthy
           /\ endpoints[i].lastFailedAt # 0
           /\ clock - endpoints[i].lastFailedAt > circuitCooldownMs
        THEN [failures |-> 0, healthy |-> TRUE, lastFailedAt |-> 0]
        ELSE endpoints[i]]

\* pickEndpoint that ignores the breaker: always the primary url
pickPrimary(endpoints) == 1
\* pickEndpoint on the list getHealthyEndpoints left: the first healthy
\* url, else the first of those with the fewest failures (the sort is stable)
pickEndpoint(endpoints) ==
    IF \E i \in Endpoints : endpoints[i].healthy
    THEN CHOOSE i \in Endpoints :
            /\ endpoints[i].healthy
            /\ \A j \in Endpoints : endpoints[j].healthy => i <= j
    ELSE CHOOSE i \in Endpoints :
            \A j \in Endpoints :
                \/ endpoints[i].failures < endpoints[j].failures
                \/ (endpoints[i].failures = endpoints[j].failures /\ i <= j)

\* a manager just constructed; inflight counts the attempts of withRpcRetry
\* that picked an url and have not marked it yet, trippedAt remembers the
\* time of the failure that made an url unhealthy
InitEndpoints ==
    /\ deals = << >>
    /\ events = EmptyBag
    /\ tickets = << >>
    /\ calls = [p \in Procs |-> Idle]
    /\ response = NoResponse
    /\ now = 0
    /\ nodeEnv \in NodeEnvs
    /\ pdaSeedsScheme = "deal_id"
    /\ wallClock = 0
    /\ unit = [fn |-> "RpcEndpointManager",
               endpoints |-> [i \in Endpoints |->
                                [failures |-> 0, healthy |-> TRUE, lastFailedAt |-> 0]],
               inflight |-> [i \in Endpoints |-> 0],
               trippedAt |-> [i \in Endpoints |-> 0],
               clock |-> 1, picked |-> NoEndpoint]

\* an attempt of withRpcRetry starts: endpointManager.pickEndpoint()
em_pick ==
    /\ unit.fn = "RpcEndpointManager"
    /\ LET enabled == reenable(unit.endpoints, unit.clock)
           i == pickEndpoint(enabled)
       IN /\ unit.inflight[i] < MaxInflight
          /\ unit' = [unit EXCEPT !.endpoints = enabled, !.picked = i,
                                  !.inflight[i] = @ + 1]
    /\ UNCHANGED <<deals, events, tickets, calls, response, now, nodeEnv, pdaSeedsScheme,
                   wallClock>>

\* an attempt ends in catch: endpointManager.markFailure(endpoint)
em_failure ==
    /\ unit.fn = "RpcEndpointManager"
    /\ \E i \in Endpoints :
         /\ unit.inflight[i] > 0
         /\ unit.endpoints[i].failures < MaxFailures
         /\ LET marked == markFailure(unit.endpoints, i, unit.clock) IN
              unit' = [unit EXCEPT !.endpoints = marked, !.picked = NoEndpoint,
                                   !.inflight[i] = @ - 1,
                                   !.trippedAt[i] =
                                       IF unit.endpoints[i].healthy /\ ~marked[i].healthy
                                       THEN unit.clock ELSE @]
    /\ UNCHANGED <<deals, events, tickets, calls, response, now, nodeEnv, pdaSeedsScheme,
                   wallClock>>

\* an attempt ends well: endpointManager.markSuccess(endpoint)
em_success ==
    /\ unit.fn = "RpcEndpointManager"
    /\ \E i \in Endpoints :
         /\ unit.inflight[i] > 0
         /\ unit' = [unit EXCEPT !.endpoints = markSuccess(unit.endpoints, i),
                                 !.picked = NoEndpoint, !.inflight[i] = @ - 1]
    /\ UNCHANGED <<deals, events, tickets, calls, response, now, nodeEnv, pdaSeedsScheme,
                   wallClock>>

\* Date.now() moves on
em_tick ==
    /\ unit.fn = "RpcEndpointManager"
    /\ unit.clock < MaxEndpointClock
    /\ unit' = [unit EXCEPT !.clock = @ + 1, !.picked = NoEndpoint]
    /\ UNCHANGED <<deals, events, tickets, calls, response, now, nodeEnv, pdaSeedsScheme,
                   wallClock>>

NextEndpoints ==
    \/ em_pick
    \/ em_failure
    \/ em_success
    \/ em_tick

SpecEndpoints == InitEndpoints /\ [][NextEndpoints]_vars

\* ------------------------------------------------- steps, as seen from outside
\* the step of task p that runs findUnique and the checks on the row
ConfirmReads(p) == calls[p].pc = "cf_read" /\ calls'[p].pc # "cf_read"
\* the step of task p that looks the resolve ticket up
ConfirmReadsTicket(p) == calls[p].pc = "cf_ticket" /\ calls'[p].pc # "cf_ticket"
\* the step of task p that commits the transaction of confirm
ConfirmCommits(p) == calls[p].pc = "cf_commit" /\ calls'[p].pc = "idle"
\* the status of deal d changes in this step
StatusChanges(d) == Exists(d) /\ d \in DOMAIN deals' /\ deals'[d].status # deals[d].status

\* ------------------------------------------------- the transition table
TableActions == {"FUND", "RELEASE", "REFUND", "OPEN_DISPUTE"}
TableFrom(action) ==
    CASE action = "FUND" -> {"INIT"}
      [] action = "RELEASE" -> {"FUNDED", "RESOLVED"}
      [] action = "REFUND" -> {"FUNDED", "RESOLVED"}
      [] action = "OPEN_DISPUTE" -> {"FUNDED"}
TableTo(action) ==
    CASE action = "FUND" -> "FUNDED"
      [] action = "RELEASE" -> "RELEASED"
      [] action = "REFUND" -> "REFUNDED"
      [] action = "OPEN_DISPUTE" -> "DISPUTED"
\* every edge some row of the table allows, confirm(RESOLVE) included
TableEdges ==
    {<<"INIT", "FUNDED">>, <<"FUNDED", "RELEASED">>, <<"FUNDED", "REFUNDED">>,
     <<"FUNDED", "DISPUTED">>, <<"DISPUTED", "RESOLVED">>,
     <<"RESOLVED", "RELEASED">>, <<"RESOLVED", "REFUNDED">>,
     <<"DISPUTED", "RELEASED">>, <<"DISPUTED", "REFUNDED">>}
TerminalStatuses == {"RELEASED", "REFUNDED"}
BuildOps == {"initiate", "fund", "release", "refund", "open-dispute", "resolve"}
ActorErrors == {"Actor wallet must be buyer or seller", "Actor wallet mismatch"}
\* the actor the table names for an action
CorrectActor(action, deal, w) ==
    CASE action \in {"FUND", "RELEASE"} -> w = deal.buyerWallet
      [] action = "REFUND" -> w = deal.sellerWallet
      [] action = "OPEN_DISPUTE" -> w \in {deal.buyerWallet, deal.sellerWallet}
      [] action = "RESOLVE" -> w = deal.arbiterPubkey
VerdictStatus(finalAction) ==
    CASE finalAction = "RELEASE" -> "RELEASED"
      [] finalAction = "REFUND" -> "REFUNDED"
      [] OTHER -> "none"

\* ------------------------------------------------------------- claims
\* C1: the persisted status is always one of the six statuses and every
\* change of it, in every interleaving, is an edge of the transition table,
\* so that no deal skips a required predecessor or walks back.
C1_StatusFollowsTable ==
    [][\A d \in DealIds :
          /\ Exists(d) => deals[d].status \in Statuses
          /\ StatusChanges(d) => <<deals[d].status, deals'[d].status>> \in TableEdges]_vars

\* C2: a confirm that moves the status commits only while the stored status
\* is still a status its action may leave, so of two concurrent confirms of
\* the same transition the second one cannot succeed as well.
C2_ConfirmCommitsOnCurrentStatus ==
    [][\A p \in Procs, d \in DealIds :
          (ConfirmCommits(p) /\ calls[p].action # "INITIATE")
              => TransitionAllowed(calls[p].action, deals[d].status)]_vars

\* C3: once the persisted status is RELEASED or REFUNDED no step of any
\* operation changes it.
C3_TerminalAbsorbing ==
    [][\A d \in DealIds :
          (Exists(d) /\ deals[d].status \in TerminalStatuses)
              => (d \in DOMAIN deals' /\ deals'[d].status = deals[d].status)]_vars

\* C4: a step that changes a deal's status inserts an OnchainEvent for that
\* deal in the same step (the same database transaction).
C4_StatusChangeCarriesEvent ==
    [][\A d \in DealIds :
          StatusChanges(d)
              => \E e \in BagToSet(events') :
                    e.dealId = d /\ CopiesIn(e, events') = CopiesIn(e, events) + 1]_vars

\* C5: no step of a transaction-building call (initiate, fund, release,
\* refund, open-dispute, resolve) changes the status of an existing deal.
C5_BuildCallsKeepStatus ==
    [][\A d \in DealIds :
          StatusChanges(d) => response'.op \notin BuildOps]_vars

\* C6: confirm commits a status and an event under the all-ones signature,
\* whose on-chain outcome it never looked up, only when the deployment runs
\* in a non-production mode.
C6_MockOnlyOutsideProduction ==
    [][\A p \in Procs :
          (ConfirmCommits(p) /\ IsMockSignature(calls[p].txSig))
              => nodeEnv # "production"]_vars

\* C7: for FUND, RELEASE, REFUND and OPEN_DISPUTE, confirm by the correct
\* actor is accepted exactly when the status it reads from the store is a
\* from-status of the action in the transition table, it is otherwise
\* rejected as an invalid transition, and an accepted confirm commits the
\* table's resulting status.
C7_ConfirmFollowsTable ==
    [][\A p \in Procs, d \in DealIds :
          /\ (ConfirmReads(p) /\ Exists(d)) =>
                /\ \A a \in TableActions, w \in Wallets :
                      CorrectActor(a, deals[d], w) => ActorError(a, deals[d], w) = ""
                /\ (calls'[p].pc = "cf_commit" /\ calls'[p].action \in TableActions) =>
                      /\ deals[d].status \in TableFrom(calls'[p].action)
                      /\ calls'[p].next = TableTo(calls'[p].action)
                /\ (response'.action \in TableActions /\ response'.error \notin ActorErrors) =>
                      /\ deals[d].status \notin TableFrom(response'.action)
                      /\ response' = ConfirmFail(response'.action, TransitionError(response'.action))
                      /\ UNCHANGED <<deals, events>>
          /\ (ConfirmCommits(p) /\ calls[p].action \in TableActions) =>
                /\ deals'[d].status = TableTo(calls[p].action)
                /\ response' = ConfirmReply(calls[p].action)]_vars

\* C7 witness: a confirm(OPEN_DISPUTE) has just been accepted and the deal
\* is DISPUTED.
C7_Witness ==
    /\ response = ConfirmReply("OPEN_DISPUTE")
    /\ \E d \in DealIds : Exists(d) /\ deals[d].status = "DISPUTED"

C9_ResolvedFollowsVerdict ==
    [][\A p \in Procs, d \in DealIds :
          (/\ ConfirmCommits(p)
           /\ calls[p].seen = "RESOLVED"
           /\ calls[p].action \in {"RELEASE", "REFUND"}
           /\ HasTicket(d)
           /\ LatestTicket(d).finalAction \in {"RELEASE", "REFUND"})
              => LatestTicket(d).finalAction = calls[p].action]_vars

\* C10: once fundedAt is set (non-null) no step changes its value.
C10_FundedAtSetOnce ==
    [][\A d \in DealIds :
          (Exists(d) /\ deals[d].fundedAt # 0)
              => (d \in DOMAIN deals' /\ deals'[d].fundedAt = deals[d].fundedAt)]_vars

\* an event row e of deal d is inserted in this step
EventInserted(d, e) == e.dealId = d /\ CopiesIn(e, events') > CopiesIn(e, events)

\* C11: every event inserted for a deal comes with a change of that deal's
\* status in the same step, and its signature is not one already recorded.
C11_EventPerTransition ==
    [][\A d \in DealIds : \A e \in BagToSet(events') :
          EventInserted(d, e)
              => /\ StatusChanges(d)
                 /\ \A x \in BagToSet(events) : x.txSig # e.txSig]_vars

\* C12: the event log only grows: every recorded event is still recorded,
\* as many times, after every step, deletion of its deal included.
C12_EventsAppendOnly ==
    [][\A e \in BagToSet(events) : CopiesIn(e, events') >= CopiesIn(e, events)]_vars

\* C17: a deal row disappears only while its stored status is INIT.
C17_OnlyInitDeleted ==
    [][\A d \in DealIds :
          (Exists(d) /\ d \notin DOMAIN deals') => deals[d].status = "INIT"]_vars


\* the step of an initiate call that issues deal.create or deal.update
InitiateWrites(p) == calls[p].pc = "in_write" /\ calls'[p].pc = "idle"

\* the answers of an initiate call whose amount is refused
AmountErrors == {"[DecimalError] Invalid argument",
                 "Amount must be a numeric string with up to 6 decimals"}

\* C13: initiate is idempotent: while the deal is absent or still INIT, every
\* initiate call for the same dealId with an accepted amount, sequential or
\* interleaved with another one, resolves to that dealId, and one record with
\* that id exists afterwards.
C13_InitiateIdempotent ==
    [][\A p \in Procs : \A d \in DealIds :
          (/\ InitiateWrites(p)
           /\ Exists(d) => deals[d].status = "INIT"
           /\ response'.error \notin AmountErrors)
              => /\ response'.ok
                 /\ d \in DOMAIN deals']_vars


\* C14: the stored onchainAddress of every deal is the escrow address derived
\* from its dealId and the program address, in every reachable state.
C14_OnchainAddressFromDealId ==
    \A d \in DealIds : Exists(d) => deals[d].onchainAddress = getEscrowPda(d)

\* C15: address schemes are not mixed for one deal: the escrow account of a
\* transaction built by any operation is the address initiate derived and
\* stored for the deal.
C15_OneAddressPerDeal ==
    \A d \in DealIds :
        (Exists(d) /\ response.ok /\ response.tx # NoTransaction)
            => response.tx.escrowPda = deals[d].onchainAddress

\* handleInitiate, handleFund: findProgramAddressSync(["escrow", dealIdBytes])
verifiedPda(dealIdBytes) == [seeds |-> <<"escrow", dealIdBytes>>]

\* the operations that answer with an unsigned transaction on the escrow
TransactionOps == {"initiate", "fund", "release", "refund"}

\* C16: the escrow account of every transaction returned by initiate, fund,
\* release or refund is the address derived from exactly the dealId bytes
\* embedded in its instruction data.
C16_AccountFromPayloadBytes ==
    (response.ok /\ response.op \in TransactionOps /\ response.tx # NoTransaction)
        => response.tx.escrowPda = verifiedPda(response.tx.dealIdBytes)


\* C18: a confirm call that fails, for whatever reason, leaves the deal rows
\* and the event log exactly as they were.
C18_FailedConfirmChangesNothing ==
    [][(response'.op = "confirm" /\ ~response'.ok) => UNCHANGED <<deals, events>>]_vars

\* a confirm was refused for its transition on a deal that already has events
C18_Witness ==
    /\ response.op = "confirm" /\ ~response.ok
    /\ response.error = "Invalid transition"
    /\ BagCardinality(events) > 0
    /\ \E d \in DealIds : Exists(d) /\ deals[d].status = "FUNDED"


\* C19: an initiate call that fails validation or an integrity check (amount
\* out of format, address not re-verified, ...) creates no deal row and
\* modifies no existing one.
C19_FailedInitiateChangesNothing ==
    [][(response'.op = "initiate" /\ ~response'.ok) => UNCHANGED deals]_vars


\* the build calls that check a status and a caller, with the statuses each
\* accepts and the stored wallets each accepts as caller
CheckedBuildOps == {"fund", "release", "refund", "open-dispute"}

BuildFrom(op) ==
    CASE op = "fund" -> {"INIT"}
      [] op = "release" -> {"FUNDED", "RESOLVED"}
      [] op = "refund" -> {"FUNDED", "RESOLVED"}
      [] op = "open-dispute" -> {"FUNDED"}

BuildRole(op, d) ==
    CASE op = "fund" -> {deals[d].buyerWallet}
      [] op = "release" -> {deals[d].buyerWallet}
      [] op = "refund" -> {deals[d].sellerWallet}
      [] op = "open-dispute" -> {deals[d].buyerWallet, deals[d].sellerWallet}

BuildCall(op, p, d, wallet) ==
    CASE op = "fund" -> handleFundCall(p, d, wallet)
      [] op = "release" -> handleReleaseCall(p, d, wallet)
      [] op = "refund" -> handleRefundCall(p, d, wallet)
      [] op = "open-dispute" -> openDisputeCall(p, d, wallet)

\* C20: a build call on a deal whose status is outside the operation's
\* from-statuses, or whose caller is not the stored wallet of the required
\* role, is rejected and the stored deal is unchanged; fund by a non-buyer on
\* an INIT deal answers "Caller wallet does not match buyer" and release on
\* an INIT deal answers "Deal status INIT cannot be released".
C20_BuildCallRejected ==
    [][response'.op \in CheckedBuildOps =>
          \A p \in Procs : \A d \in DealIds : \A wallet \in Wallets :
             LET op == response'.op IN
             (/\ calls[p].pc = "idle"
              /\ Exists(d)
              /\ deals[d].status \notin BuildFrom(op) \/ wallet \notin BuildRole(op, d)
              /\ BuildCall(op, p, d, wallet))
                 => /\ ~response'.ok
                    /\ UNCHANGED deals
                    /\ (op = "fund" /\ deals[d].status = "INIT")
                          => response'.error = "Caller wallet does not match buyer"
                    /\ (op = "release" /\ deals[d].status = "INIT")
                          => response'.error = "Deal status INIT cannot be released"]_vars

\* release was asked on a deal that was never funded
C20_Witness ==
    /\ response = Fail("release", "Deal status INIT cannot be released")
    /\ \E d \in DealIds : Exists(d) /\ deals[d].status = "INIT"


\* the deals the resolve operation may act on: DISPUTED, or FUNDED, with a
\* ticket whose arbiter the caller can be matched against
ResolveEligible(d) ==
    /\ Exists(d)
    /\ deals[d].status \in {"DISPUTED", "FUNDED"}
    /\ HasTicket(d)

\* C21: resolve is accepted, and its transaction signed and submitted, only
\* for a resolve-eligible deal that has a most recent ResolveTicket to match
\* the arbiter against; in every other case it is rejected.
C21_ResolveOnlyEligible ==
    [][(response'.op = "resolve" /\ response'.ok)
          => \E d \in DealIds : ResolveEligible(d)]_vars

\* C22: resolve for a deal that has no ResolveTicket is rejected, whatever
\* else the request contains, and nothing is submitted.
C22_ResolveNeedsTicket ==
    [][\A d \in DealIds :
          (response'.op = "resolve" /\ Exists(d) /\ ~HasTicket(d)) => ~response'.ok]_vars


\* C23: an initiate call that found the derived escrow account on-chain
\* reuses the stored deal or refuses; it never creates a deal row and never
\* answers with a new initiate transaction.
C23_ExistingAccountNotInitiated ==
    [][\A p \in Procs :
          (InitiateWrites(p) /\ calls[p].accountExists)
              => /\ DOMAIN deals' = DOMAIN deals
                 /\ response'.tx = NoTransaction]_vars


\* C24: the price snapshot taken at initiation is immutable: no step changes
\* the stored snapshot of a deal that exists before and after it.
C24_PriceSnapshotImmutable ==
    [][\A d \in DealIds :
          (Exists(d) /\ d \in DOMAIN deals')
              => deals'[d].usdPriceSnapshot = deals[d].usdPriceSnapshot]_vars


\* C25: retries of one initiate request converge: calls with identical bodies
\* and no clientDealId, served at different times, resolve to the same dealId.
C25_RetriesConverge ==
    (unit.fn = "ensureDealId" /\ unit.body.clientDealId = NoClientDealId)
        => \A i, j \in DOMAIN unit.dealIds : unit.dealIds[i] = unit.dealIds[j]


\* the payload length of each operation under the dealId seed scheme
PayloadLength(op) ==
    CASE op = "initiate" -> 42
      [] op \in {"fund", "release", "refund"} -> 24
      [] op = "open-dispute" -> 8
      [] op = "resolve" -> 9

\* C26: instruction payload lengths are fixed for every accepted input:
\* initiate 42 bytes under the dealId seed scheme, fund, release and refund
\* 24, open-dispute 8, resolve 9; every selector is 8 bytes.
C26_PayloadLengths ==
    unit.fn = "data"
        => /\ Len(unit.data) = PayloadLength(unit.op)
           /\ \A name \in {"initiate", "fund", "release", "refund", "open_dispute", "resolve"} :
                 Len(getInstructionDiscriminator(name)) = 8

\* an initiate payload was built
C26_Witness ==
    /\ unit.fn = "data" /\ unit.op = "initiate"
    /\ pdaSeedsScheme = "deal_id"
    /\ Len(unit.data) = 42

\* whether a value fits the unsigned, or the signed, integers of `size` bytes
FitsUnsigned(value, size) == value >= 0 /\ value < ShiftLeftOne(8 * size)
FitsSigned(value, size) ==
    value >= 0 - ShiftLeftOne(8 * size - 1) /\ value <= ShiftLeftOne(8 * size - 1) - 1

\* C27: the fixed-width encoders fail with an overflow error whenever the
\* value does not fit in the requested size; they never return a truncated
\* or wrapped encoding.
C27_EncodersRejectOverflow ==
    /\ (unit.fn = "writeUIntLE" /\ ~FitsUnsigned(unit.value, unit.size))
          => unit.error = "EncodingOverflow"
    /\ (unit.fn = "writeIntLE" /\ ~FitsSigned(unit.value, unit.size))
          => unit.error = "EncodingOverflow"

\* ------------------------------------------------------------------- C28
\* the integer part without its leading zeros, one digit at least
RECURSIVE StripLeadingZeros(_)
StripLeadingZeros(digits) ==
    IF Len(digits) > 1 /\ digits[1] = 0 THEN StripLeadingZeros(Tail(digits)) ELSE digits
\* the canonical form of an amount string: integer part without leading
\* zeros, a ".", the fraction filled with zeros on the right to 6 digits
canonical(s) ==
    [whole |-> StripLeadingZeros(s.whole), dot |-> TRUE,
     fraction |-> s.fraction \o [i \in 1 .. (DECIMALS - Len(s.fraction)) |-> 0]]

\* C28: for every decimal string that matches ^\d+(\.\d{1,6})?$, formatting
\* the parsed units gives the canonical form of the string.
C28_AmountRoundTrip ==
    (unit.fn = "formatUnitsToDecimal" /\ MatchesAmountFormat(unit.input))
        => /\ unit.error = ""
           /\ unit.output = canonical(unit.input)
\* "007.07" comes back as "7.070000"
C28_Witness ==
    /\ unit.fn = "formatUnitsToDecimal"
    /\ unit.input = [whole |-> <<0, 0, 7>>, dot |-> TRUE, fraction |-> <<0, 7>>]
    /\ unit.units = 7070000
    /\ unit.output = [whole |-> <<7>>, dot |-> TRUE, fraction |-> <<0, 7, 0, 0, 0, 0>>]

\* ------------------------------------------------------------------- C29
\* C29: no database transaction is held open across a network round trip:
\* every round trip of a request is made while its transaction is not open.
C29_NoRoundTripInTransaction ==
    unit.fn = "io" => ~unit.held
\* a confirm that checked the signature status, then ran its transaction to
\* the commit
C29_Witness ==
    /\ unit.fn = "io"
    /\ unit.op = "confirm"
    /\ unit.pos = Len(unit.script)
    /\ unit.script[1] = Rpc("getSignatureStatuses")
    /\ unit.script[unit.pos] = Commit
    /\ ~unit.txOpen

\* ------------------------------------------------------------------- C30
RetryDone == unit.fn = "withRpcRetry" /\ unit.pc \in {"returned", "thrown"}
\* at most maxAttempts attempts; a return gives the result of the first call
\* that succeeded; a throw gives the error of the last attempt made
RetryBounded ==
    unit.fn = "withRpcRetry" =>
        /\ unit.made <= unit.maxAttempts
        /\ unit.pc = "returned" =>
              /\ unit.outcomes[unit.result] = "success"
              /\ unit.result = unit.made
              /\ \A i \in 1 .. (unit.result - 1) : unit.outcomes[i] # "success"
        /\ unit.pc = "thrown" =>
              /\ unit.made >= 1
              /\ unit.error = [msg |-> errorMessage(unit.outcomes[unit.made]),
                               attempt |-> unit.made]

\* C30: withRpcRetry always terminates: for every outcome sequence it makes
\* at most maxAttempts attempts and then returns the first successful result
\* or throws the last error.
C30_RetryTerminates == []RetryBounded /\ <>RetryDone
\* two calls hung past the timeout, the third and last attempt succeeded
C30_Witness ==
    /\ unit.fn = "withRpcRetry"
    /\ unit.maxAttempts = 3
    /\ unit.outcomes[1] = "hang"
    /\ unit.outcomes[2] = "hang"
    /\ unit.pc = "returned"
    /\ unit.result = 3

\* ------------------------------------------------------------------- C31
\* the attempt in flight settles in this step
RetrySettles == unit.fn = "withRpcRetry" /\ unit.pc = "race" /\ unit'.pc # "race"
\* C31: a non-transient error of the RPC call is thrown at once, with no
\* further attempt; a transient error on an attempt before the last is
\* followed by another attempt.
C31_NonTransientNotRetried ==
    [][RetrySettles =>
         LET outcome == unit.outcomes[unit.attempt] IN
           /\ outcome \in NonTransientOutcomes =>
                 /\ unit'.pc = "thrown"
                 /\ unit'.error.attempt = unit.attempt
           /\ (outcome \in {"transient", "hang"} /\ unit.attempt < unit.maxAttempts) =>
                 unit'.pc = "sleep"]_vars

\* ------------------------------------------------------------------- C32
\* this step is a call of pickEndpoint
Picks == unit.fn = "RpcEndpointManager" /\ unit'.picked # NoEndpoint
\* url i has failed circuitThreshold times in a row and the cooldown since
\* the failure that tripped the breaker has not elapsed
Excluded(i) ==
    /\ unit.endpoints[i].failures >= circuitThreshold
    /\ unit.clock - unit.trippedAt[i] <= circuitCooldownMs
\* C32: after circuitThreshold consecutive failures on an endpoint,
\* pickEndpoint does not return it while another endpoint is healthy and
\* its cooldown has not elapsed.
C32_BreakerExcludes ==
    [][Picks =>
         \A i \in Endpoints :
            (Excluded(i) /\ \E j \in Endpoints \ {i} : unit.endpoints[j].healthy)
                => unit'.picked # i]_vars
\* the primary url is excluded, and the selection returned the other one
C32_Witness ==
    /\ unit.fn = "RpcEndpointManager"
    /\ unit.endpoints[1].failures >= circuitThreshold
    /\ ~unit.endpoints[1].healthy
    /\ unit.clock - unit.trippedAt[1] <= circuitCooldownMs
    /\ unit.endpoints[2].healthy
    /\ unit.picked = 2

\* ------------------------------------------------------------------- C33
\* C33: once more than circuitCooldownMs has passed since the failure that
\* tripped the breaker, the next selection treats the endpoint as healthy
\* again with its failure count at 0, also when it was selected as the
\* fallback in the meantime.
C33_ReadmittedAfterCooldown ==
    [][Picks =>
         \A i \in Endpoints :
            (~unit.endpoints[i].healthy
               /\ unit.clock - unit.trippedAt[i] > circuitCooldownMs)
                => /\ unit'.endpoints[i].healthy
                   /\ unit'.endpoints[i].failures = 0]_vars

\* ------------------------------------------------------------------- C34
\* C34: in the shortcut path of initiate (the account exists and an INIT deal
\* matches), a failed or timed-out checkpoint fetch does not fail the call:
\* it answers with the id of the existing deal, an empty checkpoint and
\* lastValidBlockHeight 0, and the stored deal is unchanged.
C34_ShortcutSurvivesCheckpointFailure ==
    [][response'.op = "initiate" =>
         \A p \in Procs, d \in DealIds, outcome \in {"error", "timeout"} :
            (Exists(d) /\ deals[d].status = "INIT"
               /\ handleInitiate_lookupCall(p, d, TRUE, outcome))
                => /\ response'.ok
                   /\ response'.dealId = d
                   /\ response'.checkpoint = NoCheckpoint
                   /\ response'.tx = NoTransaction
                   /\ deals' = deals]_vars
\* the shortcut answered for an INIT deal with the empty checkpoint
C34_Witness ==
    /\ response.op = "initiate"
    /\ response.ok
    /\ response.tx = NoTransaction
    /\ "checkpoint" \in DOMAIN response
    /\ response.checkpoint = NoCheckpoint
    /\ response.dealId \in DOMAIN deals
    /\ deals[response.dealId].status = "INIT"

\* ------------------------------------------------------------------- C35
\* the action a client confirms after each build call
ConfirmActionOf(op) ==
    CASE op = "fund" -> "FUND"
      [] op = "release" -> "RELEASE"
      [] op = "refund" -> "REFUND"
      [] op = "open-dispute" -> "OPEN_DISPUTE"
      [] op = "resolve" -> "RESOLVE"
\* confirm of the action by the right actor with a verified signature would
\* pass the checks of the transaction on the deal as it is stored now
ConfirmWouldAccept(action, d) ==
    /\ TransitionAllowed(action, deals[d].status)
    /\ action = "RESOLVE" => HasTicket(d)
\* C35: whenever a build call is accepted for a deal in some stored status,
\* the matching confirm is accepted in that same status.
C35_PhasesAgree ==
    [][\A d \in DealIds :
         (/\ response'.ok
          /\ response'.op \in {"fund", "release", "refund", "open-dispute", "resolve"}
          /\ calls' = calls
          /\ Exists(d))
            => ConfirmWouldAccept(ConfirmActionOf(response'.op), d)]_vars

\* ------------------------------------------------------------------- C36
\* C36: a signature confirm has accepted for one deal and action is never
\* accepted again to advance another deal or another action (signatures
\* verified on the node; the mock one is left aside).
C36_SignatureBoundToOneTransition ==
    [][\A p \in Procs, d \in DealIds :
         (ConfirmCommits(p) /\ StatusChanges(d) /\ ~IsMockSignature(calls[p].txSig))
            => \A e \in BagToSet(events) :
                  e.txSig = calls[p].txSig
                     => (e.dealId = d /\ e.instruction = calls[p].action)]_vars

\* ------------------------------------------------------------------- C37
\* C37: the amount transferred by the transaction fund returns equals the
\* deal's stored price in 6-decimal token units; a fund request with another
\* amount is rejected.
C37_FundTransfersStoredPrice ==
    (unit.fn = "handleFund" /\ unit.pc = "built")
        => IF MatchesAmountFormat(unit.amount)
              /\ parseAmountToUnits(unit.amount) = parseAmountToUnits(unit.priceUsd)
           THEN unit.error = "" /\ unit.transfer = parseAmountToUnits(unit.priceUsd)
           ELSE unit.error # ""

\* ------------------------------------------------------------------- C38
\* C38: once a deal record exists, no later initiate call changes its
\* parties: a repeated initiate naming another seller, buyer or arbiter is
\* rejected or leaves the stored wallets as they are.
C38_PartiesFixed ==
    [][\A p \in Procs, d \in DealIds :
         (InitiateWrites(p) /\ Exists(d) /\ d \in DOMAIN deals')
            => /\ deals'[d].sellerWallet = deals[d].sellerWallet
               /\ deals'[d].buyerWallet = deals[d].buyerWallet
               /\ deals'[d].arbiterPubkey = deals[d].arbiterPubkey]_vars

====
